---- MODULE Spec2Model ----
(***************************************************************************)
(* Model of the Regex-Lister extension (src/index.js): the regex-script    *)
(* pipeline getRegexedString / runRegexScript / filterString and the       *)
(* listing getActiveRegexScripts.                                          *)
(*                                                                         *)
(* A JavaScript string is a sequence of one-character tokens; a macro such *)
(* as {{user}} is one token of its own.  A JavaScript value is a record    *)
(* [k, n, s]: k names the type, n holds a number, s holds a string.        *)
(***************************************************************************)
EXTENDS Integers, Sequences, FiniteSets, TLC

VARIABLES
    regex,        \* extension_settings.regex: the global scripts
    scoped,       \* characters[this_chid].data.extensions.regex_scripts
    allowed,      \* the character's avatar is in character_allowed_regex
    extDisabled,  \* extension_settings.disabledExtensions includes 'regex'
    pc,           \* the operation that ran last
    call,         \* the arguments of the last getRegexedString / runRegexScript / filterString
    out,          \* what that call produced: [threw, v]
    ran,          \* the runRegexScript invocations of the last getRegexedString, in order
    names,        \* the last result of getActiveRegexScripts
    prev          \* the settings before the last change of a disabled flag

vars == <<regex, scoped, allowed, extDisabled, pc, call, out, ran, names, prev>>

-----------------------------------------------------------------------------
(* JavaScript values *)

Undefined == [k |-> "undefined", n |-> 0, s |-> <<>>]
Null      == [k |-> "null", n |-> 0, s |-> <<>>]
NaN       == [k |-> "NaN", n |-> 0, s |-> <<>>]
Num(i)    == [k |-> "number", n |-> i, s |-> <<>>]
Str(t)    == [k |-> "string", n |-> 0, s |-> t]

\* !v for the values above: undefined, null, NaN, 0 and '' are falsy
Falsy(v) ==
    \/ v.k \in {"undefined", "null", "NaN"}
    \/ v.k = "number" /\ v.n = 0
    \/ v.k = "string" /\ v.s = <<>>

\* a call's outcome: a returned value, or a TypeError thrown out of the call
Returned(v) == [threw |-> FALSE, v |-> v]
Thrown      == [threw |-> TRUE, v |-> Undefined]

Digits == <<"0", "1", "2", "3", "4", "5", "6", "7", "8", "9">>
IsDigit(c) == \E d \in 1..10 : Digits[d] = c
DigitVal(c) == (CHOOSE d \in 1..10 : Digits[d] = c) - 1

\* Number(num) for a run of decimal digits
RECURSIVE ToNumber(_)
ToNumber(ds) ==
    IF ds = <<>> THEN 0
    ELSE 10 * ToNumber(SubSeq(ds, 1, Len(ds) - 1)) + DigitVal(ds[Len(ds)])

\* String(n) for a number n >= 0
RECURSIVE NumToString(_)
NumToString(n) ==
    IF n < 10 THEN <<Digits[n + 1]>>
    ELSE NumToString(n \div 10) \o <<Digits[(n % 10) + 1]>>

\* String.prototype.replaceAll(t, '') scanning s from position i
RECURSIVE RemoveFrom(_, _, _)
RemoveFrom(s, t, i) ==
    IF i > Len(s) THEN <<>>
    ELSE IF t # <<>> /\ i + Len(t) - 1 <= Len(s) /\ SubSeq(s, i, i + Len(t) - 1) = t
         THEN RemoveFrom(s, t, i + Len(t))
         ELSE <<s[i]>> \o RemoveFrom(s, t, i + 1)

\* a faulty variant of replaceAll: String.prototype.replace(t, ''), which cuts the first occurrence only
replaceFirstOnly(s, t) ==
    IF \E i \in 1..(Len(s) - Len(t) + 1) : SubSeq(s, i, i + Len(t) - 1) = t
    THEN LET i == CHOOSE i \in 1..(Len(s) - Len(t) + 1) :
                     /\ SubSeq(s, i, i + Len(t) - 1) = t
                     /\ \A j \in 1..(i - 1) : SubSeq(s, j, j + Len(t) - 1) # t
         IN SubSeq(s, 1, i - 1) \o SubSeq(s, i + Len(t), Len(s))
    ELSE s

replaceAll(s, t) == RemoveFrom(s, t, 1)

-----------------------------------------------------------------------------
(* The host's macro engine (script.js) *)

name1 == <<"a", "?">>     \* the user's persona name, {{user}}
name2 == <<"c">>          \* the character's name, {{char}}

\* the value of one macro token; characterOverride replaces the character's name
MacroValue(tok, characterOverride) ==
    IF tok = "{{user}}" THEN name1
    ELSE IF characterOverride.k = "string" THEN characterOverride.s ELSE name2

IsMacro(tok) == tok \in {"{{user}}", "{{char}}"}

\* sanitizeRegexMacro on one character
SanitizeChar(c) ==
    IF c = "\n" THEN <<"\\", "n">>
    ELSE IF c = "\r" THEN <<"\\", "r">>
    ELSE IF c = "\t" THEN <<"\\", "t">>
    ELSE IF c = "\f" THEN <<"\\", "f">>
    ELSE IF c \in {".", "^", "$", "*", "+", "?", "{", "}", "[", "]", "\\", "/", "|", "(", ")"}
         THEN <<"\\", c>>
    ELSE <<c>>

RECURSIVE sanitizeRegexMacro(_)
sanitizeRegexMacro(x) ==
    IF x = <<>> THEN <<>> ELSE SanitizeChar(Head(x)) \o sanitizeRegexMacro(Tail(x))

\* substituteParams(content, undefined, characterOverride)
RECURSIVE substituteParams(_, _)
substituteParams(content, characterOverride) ==
    IF content = <<>> THEN <<>>
    ELSE (IF IsMacro(Head(content)) THEN MacroValue(Head(content), characterOverride)
          ELSE <<Head(content)>>)
         \o substituteParams(Tail(content), characterOverride)

\* substituteParamsExtended(content, {}, postProcessFn): escaped says whether
\* postProcessFn is sanitizeRegexMacro or absent
RECURSIVE substituteParamsExtended(_, _)
substituteParamsExtended(content, escaped) ==
    IF content = <<>> THEN <<>>
    ELSE (IF IsMacro(Head(content))
          THEN (IF escaped THEN sanitizeRegexMacro(MacroValue(Head(content), Undefined))
                ELSE MacroValue(Head(content), Undefined))
          ELSE <<Head(content)>>)
         \o substituteParamsExtended(Tail(content), escaped)

-----------------------------------------------------------------------------
(* The host's pattern parser regexFromString (utils.js) and the RegExp it   *)
(* builds.  The modelled pattern language: literal characters, \-escapes,   *)
(* capture groups of literal characters, and ? after a character or group.  *)
(* The script catalogues below stay inside it.                              *)

IsLetter(c) ==
    c \in {"a", "b", "c", "d", "e", "f", "g", "h", "i", "j", "k", "l", "m",
           "n", "o", "p", "q", "r", "s", "t", "u", "v", "w", "x", "y", "z"}

\* the longest run of [a-z] in s from position i
RECURSIVE LetterRun(_, _)
LetterRun(s, i) ==
    IF i <= Len(s) /\ IsLetter(s[i]) THEN <<s[i]>> \o LetterRun(s, i + 1) ELSE <<>>

\* input.match(/(\/?)(.+)\1([a-z]*)/i): [body, flags].  With a leading '/' the
\* greedy (.+) runs to the last later '/', else the whole input is the body
SplitPattern(input) ==
    LET js == {j \in 3..Len(input) : input[j] = "/"}
        j  == CHOOSE x \in js : \A y \in js : y <= x
    IN IF input[1] = "/" /\ js # {}
       THEN [body |-> SubSeq(input, 2, j - 1), flags |-> LetterRun(input, j + 1)]
       ELSE [body |-> input, flags |-> <<>>]

\* /^(?!.*?(.).*?\1)[gmixXsuUAJ]+$/.test(flags): known letters, none twice
FlagsPassTest(flags) ==
    /\ \A i \in 1..Len(flags) : flags[i] \in {"g", "m", "i", "x", "X", "s", "u", "U", "A", "J"}
    /\ \A i, j \in 1..Len(flags) : i # j => flags[i] # flags[j]

\* the flags the RegExp constructor accepts
FlagsCompile(flags) == \A i \in 1..Len(flags) : flags[i] \in {"d", "g", "i", "m", "s", "u", "v", "y"}

\* the character an escape \c stands for
Unescape(c) ==
    IF c = "n" THEN "\n" ELSE IF c = "r" THEN "\r" ELSE IF c = "t" THEN "\t"
    ELSE IF c = "f" THEN "\f" ELSE c

BadParse == [ok |-> FALSE, lit |-> <<>>, next |-> 0]

\* the content of a capture group from position i up to its ')'
RECURSIVE ReadGroup(_, _)
ReadGroup(b, i) ==
    IF i > Len(b) THEN BadParse
    ELSE IF b[i] = ")" THEN [ok |-> TRUE, lit |-> <<>>, next |-> i + 1]
    ELSE IF b[i] \in {"(", "?"} THEN BadParse
    ELSE IF b[i] = "\\"
         THEN IF i = Len(b) THEN BadParse
              ELSE LET r == ReadGroup(b, i + 2)
                   IN [r EXCEPT !.lit = <<Unescape(b[i + 1])>> \o @]
    ELSE LET r == ReadGroup(b, i + 1) IN [r EXCEPT !.lit = <<b[i]>> \o @]

\* one atom at position i: a group, an escape or a character
ReadAtom(b, i) ==
    IF b[i] = "(" THEN ReadGroup(b, i + 1)
    ELSE IF b[i] = "\\"
         THEN IF i = Len(b) THEN BadParse
              ELSE [ok |-> TRUE, lit |-> <<Unescape(b[i + 1])>>, next |-> i + 2]
    ELSE [ok |-> TRUE, lit |-> <<b[i]>>, next |-> i + 1]

\* the atom a, optional or not, in front of the atoms parsed after it
ConsAtom(grp, a, opt, rest) ==
    [ok |-> rest.ok, atoms |-> <<[grp |-> grp, lit |-> a.lit, opt |-> opt]>> \o rest.atoms]

\* new RegExp(body): the atoms of the pattern, or ok = FALSE for a SyntaxError
RECURSIVE ParseFrom(_, _)
RECURSIVE ParseAfter(_, _, _)
ParseFrom(b, i) ==
    IF i > Len(b) THEN [ok |-> TRUE, atoms |-> <<>>]
    ELSE IF b[i] \in {")", "?"} THEN [ok |-> FALSE, atoms |-> <<>>]
    ELSE ParseAfter(b, i, ReadAtom(b, i))

ParseAfter(b, i, a) ==
    IF ~a.ok THEN [ok |-> FALSE, atoms |-> <<>>]
    ELSE IF a.next <= Len(b) /\ b[a.next] = "?"
         THEN ConsAtom(b[i] = "(", a, TRUE, ParseFrom(b, a.next + 1))
         ELSE ConsAtom(b[i] = "(", a, FALSE, ParseFrom(b, a.next))

NoRegex == [ok |-> FALSE, atoms |-> <<>>, global |-> FALSE]

\* regexFromString(input): the compiled pattern, or ok = FALSE for undefined
\* (input.match fails on '', the constructor throws, and the catch returns nothing)
\* new RegExp(body, flags), p the parse of body
NewRegExp(p, flags) ==
    IF ~FlagsCompile(flags) \/ ~p.ok THEN NoRegex
    ELSE [ok |-> TRUE, atoms |-> p.atoms, global |-> \E i \in 1..Len(flags) : flags[i] = "g"]

\* flags that fail the test make the whole input the pattern: RegExp(input)
FromSplit(input, m) ==
    IF m.flags # <<>> /\ ~FlagsPassTest(m.flags)
    THEN NewRegExp(ParseFrom(input, 1), <<>>)
    ELSE NewRegExp(ParseFrom(m.body, 1), m.flags)

regexFromString(input) ==
    IF input = <<>> THEN NoRegex ELSE FromSplit(input, SplitPattern(input))

NoMatch == [found |-> FALSE, at |-> 0, end |-> 0, groups |-> <<>>]

\* match atoms k.. at position pos, with backtracking over the optional atoms
\* atom a fits the text at position pos
Fits(a, text, pos) ==
    /\ pos + Len(a.lit) - 1 <= Len(text)
    /\ SubSeq(text, pos, pos + Len(a.lit) - 1) = a.lit

\* the match m of the later atoms, begun at pos, with atom a's capture v in front
Captured(a, v, pos, m) ==
    [m EXCEPT !.at = pos, !.groups = (IF a.grp THEN <<v>> ELSE <<>>) \o @]

\* the match that takes atom a when there is one, else the match that skips it
Prefer(a, pos, take, skip) ==
    IF take.found THEN Captured(a, Str(a.lit), pos, take)
    ELSE IF skip.found THEN Captured(a, Undefined, pos, skip)
    ELSE NoMatch

RECURSIVE MatchAtoms(_, _, _, _)
MatchAtoms(atoms, k, text, pos) ==
    IF k > Len(atoms) THEN [found |-> TRUE, at |-> pos, end |-> pos, groups |-> <<>>]
    ELSE Prefer(atoms[k], pos,
                IF Fits(atoms[k], text, pos)
                THEN MatchAtoms(atoms, k + 1, text, pos + Len(atoms[k].lit)) ELSE NoMatch,
                IF atoms[k].opt THEN MatchAtoms(atoms, k + 1, text, pos) ELSE NoMatch)

\* RegExp exec: the leftmost match starting at or after position from
RECURSIVE FirstMatch(_, _, _)
RECURSIVE MatchOrLater(_, _, _, _)
FirstMatch(atoms, text, from) ==
    IF from > Len(text) + 1 THEN NoMatch
    ELSE MatchOrLater(atoms, text, from, MatchAtoms(atoms, 1, text, from))

MatchOrLater(atoms, text, from, m) ==
    IF m.found THEN m ELSE FirstMatch(atoms, text, from + 1)

-----------------------------------------------------------------------------
(* filterString and runRegexScript *)

\* trimStrings.forEach: finalString = finalString.replaceAll(substituteParams(trimString), '')
RECURSIVE TrimFold(_, _, _)
TrimFold(finalString, trimStrings, characterOverride) ==
    IF trimStrings = <<>> THEN finalString
    ELSE TrimFold(replaceAll(finalString, substituteParams(Head(trimStrings), characterOverride)),
                  Tail(trimStrings), characterOverride)

\* filterString(rawString, trimStrings, {characterOverride}) on a JavaScript value:
\* a number has no replaceAll, so the first trim entry throws a TypeError
filterString(rawString, trimStrings, characterOverride) ==
    IF trimStrings = <<>> THEN Returned(rawString)
    ELSE IF rawString.k # "string" THEN Thrown
    ELSE Returned(Str(TrimFold(rawString.s, trimStrings, characterOverride)))

\* String(v) of what the placeholder callback returns
ToStr(v) == IF v.k = "number" THEN NumToString(v.n) ELSE v.s

\* the longest run of digits in s from position i
RECURSIVE DigitRun(_, _)
DigitRun(s, i) ==
    IF i <= Len(s) /\ IsDigit(s[i]) THEN <<s[i]>> \o DigitRun(s, i + 1) ELSE <<>>

\* regexScript.replaceString.replace(/{{match}}/gi, '$0')
RECURSIVE MatchMarker(_)
MatchMarker(tpl) ==
    IF tpl = <<>> THEN <<>>
    ELSE (IF Head(tpl) \in {"{{match}}", "{{MATCH}}"} THEN <<"$", "0">> ELSE <<Head(tpl)>>)
         \o MatchMarker(Tail(tpl))

\* args[Number(num)] of the replace callback
ArgAt(args, num) == IF num + 1 <= Len(args) THEN args[num + 1] ELSE Undefined

\* the callback of the placeholder replaceAll on the argument match
Placeholder(match, trimStrings, characterOverride) ==
    IF Falsy(match) THEN Returned(Str(<<>>))
    ELSE filterString(match, trimStrings, characterOverride)

\* the expansion piece of one placeholder in front of the expansion of the rest
Joined(piece, rest) ==
    IF piece.threw \/ rest.threw THEN [threw |-> TRUE, s |-> <<>>]
    ELSE [threw |-> FALSE, s |-> ToStr(piece.v) \o rest.s]

\* replaceString.replaceAll(/\$(\d+)/g, ...) from position i: [threw, s]
RECURSIVE ExpandFrom(_, _, _, _, _)
RECURSIVE ExpandDigits(_, _, _, _, _, _)
ExpandFrom(tpl, i, args, trimStrings, characterOverride) ==
    IF i > Len(tpl) THEN [threw |-> FALSE, s |-> <<>>]
    ELSE IF tpl[i] = "$" /\ i < Len(tpl) /\ IsDigit(tpl[i + 1])
    THEN ExpandDigits(tpl, i, args, trimStrings, characterOverride, DigitRun(tpl, i + 1))
    ELSE [ExpandFrom(tpl, i + 1, args, trimStrings, characterOverride)
            EXCEPT !.s = <<tpl[i]>> \o @]

ExpandDigits(tpl, i, args, trimStrings, characterOverride, ds) ==
    Joined(Placeholder(ArgAt(args, ToNumber(ds)), trimStrings, characterOverride),
           ExpandFrom(tpl, i + 1 + Len(ds), args, trimStrings, characterOverride))

\* the arguments String.prototype.replace hands its callback:
\* the match, the capture groups, the offset of the match, the whole string
CallbackArgs(m, text) ==
    <<Str(SubSeq(text, m.at, m.end - 1))>> \o m.groups \o <<Num(m.at - 1), Str(text)>>

\* the replace callback of runRegexScript for the match m: [threw, s]
Replacement(regexScript, m, text, characterOverride) ==
    [ExpandFrom(MatchMarker(regexScript.replaceString), 1, CallbackArgs(m, text),
                regexScript.trimStrings, characterOverride)
       EXCEPT !.s = substituteParams(@, Undefined)]

\* the text before the match, the replacement r, and the text produced after the match
Spliced(text, from, m, r, tail) ==
    IF r.threw \/ tail.threw THEN [threw |-> TRUE, s |-> <<>>]
    ELSE [threw |-> FALSE, s |-> SubSeq(text, from, m.at - 1) \o r.s \o tail.s]

\* rawString.replace(findRegex, callback) from position from: [threw, s].  Without
\* the g flag the first match is the only one; after an empty match the search
\* moves on by one character
RECURSIVE ReplaceFrom(_, _, _, _, _)
RECURSIVE ReplaceAfter(_, _, _, _, _)
RECURSIVE ReplaceMatch(_, _, _, _, _, _)
ReplaceFrom(re, regexScript, text, from, characterOverride) ==
    ReplaceMatch(re, regexScript, text, from, characterOverride,
                 FirstMatch(re.atoms, text, from))

ReplaceAfter(re, regexScript, text, m, characterOverride) ==
    IF ~re.global THEN [threw |-> FALSE, s |-> SubSeq(text, m.end, Len(text))]
    ELSE IF m.end > m.at THEN ReplaceFrom(re, regexScript, text, m.end, characterOverride)
    ELSE IF m.at > Len(text) THEN [threw |-> FALSE, s |-> <<>>]
    ELSE [ReplaceFrom(re, regexScript, text, m.at + 1, characterOverride)
            EXCEPT !.s = <<text[m.at]>> \o @]

ReplaceMatch(re, regexScript, text, from, characterOverride, m) ==
    IF ~m.found THEN [threw |-> FALSE, s |-> SubSeq(text, from, Len(text))]
    ELSE Spliced(text, from, m, Replacement(regexScript, m, text, characterOverride),
                 ReplaceAfter(re, regexScript, text, m, characterOverride))

\* getRegexString(): the pattern source after the script's substituteRegex mode
getRegexString(regexScript) ==
    IF regexScript.substituteRegex = 1 THEN substituteParamsExtended(regexScript.findRegex, FALSE)
    ELSE IF regexScript.substituteRegex = 2 THEN substituteParamsExtended(regexScript.findRegex, TRUE)
    ELSE regexScript.findRegex

\* runRegexScript(regexScript, rawString, {characterOverride}) on a string
\* a faulty variant of OnNoPattern: "return with nothing" taken to mean the empty string
OnNoPatternEmpty(rawString) == Returned(Str(<<>>))

\* what runRegexScript returns when regexFromString gave no pattern
OnNoPattern(rawString) == Returned(Str(rawString))

\* the outcome of the replace call: its string, or the TypeError out of the callback
Outcome(r) == IF r.threw THEN Thrown ELSE Returned(Str(r.s))

\* runRegexScript once the pattern source went through regexFromString
RunCompiled(findRegex, regexScript, rawString, characterOverride) ==
    IF ~findRegex.ok THEN OnNoPattern(rawString)
    ELSE Outcome(ReplaceFrom(findRegex, regexScript, rawString, 1, characterOverride))

\* a faulty variant of ShortCircuit: the disabled flag is not looked at
ShortCircuitIgnoresDisabled(regexScript, rawString) ==
    regexScript.findRegex = <<>> \/ rawString = <<>>

\* the first guard of runRegexScript: disabled, no findRegex, or empty text
ShortCircuit(regexScript, rawString) ==
    regexScript.disabled \/ regexScript.findRegex = <<>> \/ rawString = <<>>

runRegexScript(regexScript, rawString, characterOverride) ==
    IF ShortCircuit(regexScript, rawString) THEN Returned(Str(rawString))
    ELSE RunCompiled(regexFromString(getRegexString(regexScript)), regexScript, rawString,
                     characterOverride)

-----------------------------------------------------------------------------
(* getRegexedString and getActiveRegexScripts *)

\* the placement values the enum names (4, the legacy sendAs, has no name)
regex_placement == {0, 1, 2, 3, 5, 6}

\* getScopedRegex(): the character's scripts when the character is allowed (scoped is
\* always an array here)
getScopedRegex == IF ~allowed THEN <<>> ELSE scoped

\* a faulty variant of AllRegexOf: the scoped scripts are spread first
AllRegexOfScopedFirst(global, scopedScripts) == scopedScripts \o global

\* allRegex: the global scripts, then the scoped scripts
AllRegexOf(global, scopedScripts) == global \o scopedScripts

allRegex == AllRegexOf(regex, getScopedRegex)

\* a faulty variant of GateAdmits: markdownOnly and promptOnly taken as exclusive modes
GateAdmitsOneFlagOnly(script, isMarkdown, isPrompt) ==
    \/ script.markdownOnly /\ ~script.promptOnly /\ isMarkdown
    \/ script.promptOnly /\ ~script.markdownOnly /\ isPrompt
    \/ ~script.markdownOnly /\ ~script.promptOnly /\ ~isMarkdown /\ ~isPrompt

\* the markdownOnly / promptOnly condition of the forEach callback
GateAdmits(script, isMarkdown, isPrompt) ==
    \/ script.markdownOnly /\ isMarkdown
    \/ script.promptOnly /\ isPrompt
    \/ ~script.markdownOnly /\ ~script.promptOnly /\ ~isMarkdown /\ ~isPrompt

\* isEdit && !script.runOnEdit
EditSkips(script, isEdit) == isEdit /\ ~script.runOnEdit

\* !isNaN(bound) && bound !== null && bound >= least
BoundInForce(bound, least) == bound.k = "number" /\ bound.n >= least

\* a faulty variant of DepthSkips: the bounds are exclusive (<= and >= for < and >)
DepthSkipsAtBound(script, depth) ==
    /\ depth.k \in {"number", "NaN"}
    /\ \/ BoundInForce(script.minDepth, -1) /\ depth.k = "number" /\ depth.n <= script.minDepth.n
       \/ BoundInForce(script.maxDepth, 0) /\ depth.k = "number" /\ depth.n >= script.maxDepth.n

\* the two depth checks; typeof depth === 'number' holds for NaN too,
\* and every comparison with NaN is false
DepthSkips(script, depth) ==
    /\ depth.k \in {"number", "NaN"}
    /\ \/ BoundInForce(script.minDepth, -1) /\ depth.k = "number" /\ depth.n < script.minDepth.n
       \/ BoundInForce(script.maxDepth, 0) /\ depth.k = "number" /\ depth.n > script.maxDepth.n

\* a faulty variant of PlacementAdmits: only the placements the enum names are matched
PlacementAdmitsNamed(script, placement) ==
    placement.k = "number" /\ placement.n \in (script.placement \cap regex_placement)

\* script.placement.includes(placement)
PlacementAdmits(script, placement) ==
    placement.k = "number" /\ placement.n \in script.placement

\* the conditions under which the forEach callback reaches runRegexScript
Eligible(script, placement, params) ==
    /\ GateAdmits(script, params.isMarkdown, params.isPrompt)
    /\ ~EditSkips(script, params.isEdit)
    /\ ~DepthSkips(script, params.depth)
    /\ PlacementAdmits(script, placement)

\* allRegex.forEach from script i on: [threw, s, ran], ran the record of each
\* runRegexScript invocation (script index, text handed in, text handed back)
RECURSIVE forEach(_, _, _, _, _)
RECURSIVE Assigned(_, _, _, _, _, _)
forEach(all, i, finalString, placement, params) ==
    IF i > Len(all) THEN [threw |-> FALSE, s |-> finalString, ran |-> <<>>]
    ELSE IF Eligible(all[i], placement, params)
    THEN Assigned(all, i, finalString, placement, params,
                  runRegexScript(all[i], finalString, params.characterOverride))
    ELSE forEach(all, i + 1, finalString, placement, params)

\* finalString = r, the outcome of runRegexScript on script i; a throw ends the call
Assigned(all, i, finalString, placement, params, r) ==
    IF r.threw
    THEN [threw |-> TRUE, s |-> <<>>,
          ran |-> <<[idx |-> i, before |-> finalString, threw |-> TRUE, after |-> <<>>]>>]
    ELSE [forEach(all, i + 1, r.v.s, placement, params)
            EXCEPT !.ran = <<[idx |-> i, before |-> finalString, threw |-> FALSE,
                              after |-> r.v.s]>> \o @]

\* the guards of getRegexedString that return before the fold
EarlyReturn(rawString, placement, disabledExt) ==
    \/ disabledExt
    \/ rawString.s = <<>>
    \/ placement.k = "undefined"

\* return finalString, or the TypeError that left the forEach
Folded(f) == [out |-> IF f.threw THEN Thrown ELSE Returned(Str(f.s)), ran |-> f.ran]

\* getRegexedString(rawString, placement, params) over the scripts all: [out, ran]
getRegexedString(rawString, placement, params, all, disabledExt) ==
    IF rawString.k # "string" THEN [out |-> Returned(Str(<<>>)), ran |-> <<>>]
    ELSE IF EarlyReturn(rawString, placement, disabledExt)
    THEN [out |-> Returned(rawString), ran |-> <<>>]
    ELSE Folded(forEach(all, 1, rawString.s, placement, params))

\* script.scriptName || 'unnamed'
NameOf(script) == IF script.scriptName = "" THEN "unnamed" ELSE script.scriptName

\* .filter(script => !script.disabled).map(...) over a list of scripts
RECURSIVE ActiveNames(_)
ActiveNames(scripts) ==
    IF scripts = <<>> THEN <<>>
    ELSE (IF Head(scripts).disabled THEN <<>> ELSE <<NameOf(Head(scripts))>>)
         \o ActiveNames(Tail(scripts))

\* getActiveRegexScripts(): the listing is built from the global scripts alone
getActiveRegexScripts(global, scopedScripts) == ActiveNames(global)

-----------------------------------------------------------------------------
(* The state machine *)

DefaultParams ==
    [characterOverride |-> Undefined, isMarkdown |-> FALSE, isPrompt |-> FALSE,
     isEdit |-> FALSE, depth |-> Undefined]

NoCall == [rawString |-> Undefined, placement |-> Undefined, params |-> DefaultParams,
           trimStrings |-> <<>>]

NoPrev == [idx |-> 0, regex |-> <<>>, scoped |-> <<>>]

\* a script as the regex extension's editor creates it
NewScript ==
    [scriptName |-> "", disabled |-> FALSE, findRegex |-> <<>>, replaceString |-> <<>>,
     trimStrings |-> <<>>, placement |-> {1, 2}, markdownOnly |-> FALSE,
     promptOnly |-> FALSE, runOnEdit |-> TRUE, minDepth |-> Null, maxDepth |-> Null,
     substituteRegex |-> 0]

\* the host's settings hold the scripts g and s; nothing has been called yet
InitWith(g, s, a, d) ==
    /\ regex = g /\ scoped = s /\ allowed = a /\ extDisabled = d
    /\ pc = "idle" /\ call = NoCall /\ out = Returned(Undefined)
    /\ ran = <<>> /\ names = <<>> /\ prev = NoPrev

\* the call hands back r.out; r.ran is the record of what it ran
Returns(r) == out' = r.out /\ ran' = r.ran

\* a caller runs getRegexedString on inputs of the domain D
CallGetRegexedString(D) ==
    /\ pc = "idle"
    /\ \E rawString \in D.raws, placement \in D.placements, params \in D.params :
          /\ call' = [NoCall EXCEPT !.rawString = rawString, !.placement = placement,
                                    !.params = params]
          /\ Returns(getRegexedString(rawString, placement, params, allRegex, extDisabled))
    /\ pc' = "called"
    /\ UNCHANGED <<regex, scoped, allowed, extDisabled, names, prev>>

\* the /regex-list callback runs getActiveRegexScripts
CallGetActiveRegexScripts ==
    /\ pc = "idle"
    /\ names' = getActiveRegexScripts(regex, getScopedRegex)
    /\ pc' = "listed"
    /\ UNCHANGED <<regex, scoped, allowed, extDisabled, call, out, ran, prev>>

\* filterString runs on a matched fragment of the domain D
CallFilterString(D) ==
    /\ pc = "idle"
    /\ \E frag \in D.frags, trimStrings \in D.trims, characterOverride \in D.overrides :
          /\ call' = [NoCall EXCEPT !.rawString = Str(frag), !.trimStrings = trimStrings,
                                    !.params.characterOverride = characterOverride]
          /\ out' = filterString(Str(frag), trimStrings, characterOverride)
    /\ pc' = "filtered"
    /\ UNCHANGED <<regex, scoped, allowed, extDisabled, ran, names, prev>>

\* the user disables script i of the collection (global scripts first); once per run
SetDisabled ==
    /\ pc = "idle"
    /\ prev = NoPrev
    /\ \E i \in 1..(Len(regex) + Len(scoped)) :
          /\ IF i <= Len(regex)
             THEN ~regex[i].disabled
                  /\ regex' = [regex EXCEPT ![i].disabled = TRUE]
                  /\ scoped' = scoped
             ELSE ~scoped[i - Len(regex)].disabled
                  /\ scoped' = [scoped EXCEPT ![i - Len(regex)].disabled = TRUE]
                  /\ regex' = regex
          /\ prev' = [idx |-> i, regex |-> regex, scoped |-> scoped]
    /\ UNCHANGED <<allowed, extDisabled, pc, call, out, ran, names>>

\* the call returns to the host
Return ==
    /\ pc # "idle"
    /\ pc' = "idle" /\ call' = NoCall /\ out' = Returned(Undefined)
    /\ ran' = <<>> /\ names' = <<>>
    /\ UNCHANGED <<regex, scoped, allowed, extDisabled, prev>>

NextOver(D) ==
    \/ CallGetRegexedString(D)
    \/ CallGetActiveRegexScripts
    \/ CallFilterString(D)
    \/ SetDisabled
    \/ Return

\* the sequences over S of length at most n
SeqsUpTo(S, n) == UNION {[1..k -> S] : k \in 0..n}

-----------------------------------------------------------------------------
(* Spec: the pipeline over collections of pattern scripts *)

MaxScripts == 2     \* the scripts of a collection, global and scoped together

\* /a/g -> b, with an unknown substituteRegex value
ScriptA ==
    [NewScript EXCEPT !.scriptName = "alpha", !.findRegex = <<"/", "a", "/", "g">>,
                      !.replaceString = <<"b">>, !.substituteRegex = 3]
\* /b/g -> $1: the pattern has no group 1
ScriptB ==
    [NewScript EXCEPT !.scriptName = "beta", !.findRegex = <<"/", "b", "/", "g">>,
                      !.replaceString = <<"$", "1">>]
\* /(b)(c)?/g -> {{match}}$2$3 with a trim entry: group 2 may not match, group 3 does not exist
ScriptC ==
    [NewScript EXCEPT !.findRegex = <<"/", "(", "b", ")", "(", "c", ")", "?", "/", "g">>,
                      !.replaceString = <<"{{match}}", "$", "2", "$", "3">>,
                      !.trimStrings = << <<"c">> >>]
\* /(a/g: the pattern does not compile
ScriptD ==
    [NewScript EXCEPT !.scriptName = "alpha", !.findRegex = <<"/", "(", "a", "/", "g">>,
                      !.replaceString = <<"x">>]
\* /{{user}}/g with the macro's value escaped -> {{char}}d
ScriptE ==
    [NewScript EXCEPT !.scriptName = "beta", !.findRegex = <<"/", "{{user}}", "/", "g">>,
                      !.replaceString = <<"{{char}}", "d">>, !.substituteRegex = 2]
\* /{{user}}/ with the macro's value raw, for prompts only -> [$0]
ScriptF ==
    [NewScript EXCEPT !.findRegex = <<"/", "{{user}}", "/">>,
                      !.replaceString = <<"[", "$", "0", "]">>, !.trimStrings = << <<"{{char}}">> >>,
                      !.substituteRegex = 1, !.promptOnly = TRUE]

PipeScripts == {ScriptA, ScriptB, ScriptC, ScriptD, ScriptE, ScriptF}

PipeDomain ==
    [raws       |-> {Str(<<"a", "b", "c">>), Str(<<"a", "?", "b">>), Str(<<>>), Undefined},
     placements |-> {Num(2), Undefined},
     params     |-> {DefaultParams, [DefaultParams EXCEPT !.isPrompt = TRUE],
                     [DefaultParams EXCEPT !.characterOverride = Str(<<"d">>)]},
     frags      |-> {<<"a", "c", "b">>},
     trims      |-> {<< <<"{{char}}">>, <<"a">> >>},
     overrides  |-> {Undefined}]

Init ==
    \E g \in SeqsUpTo(PipeScripts, MaxScripts), s \in SeqsUpTo(PipeScripts, MaxScripts) :
        /\ Len(g) + Len(s) <= MaxScripts
        /\ \E a \in BOOLEAN, d \in BOOLEAN : InitWith(g, s, a, d)

Next == NextOver(PipeDomain)

Spec == Init /\ [][Next]_vars

-----------------------------------------------------------------------------
(* Properties of the pipeline, checked under Spec *)

\* the guards of getRegexedString let the last call through to the fold
GuardsPassed ==
    /\ pc = "called"
    /\ call.rawString.k = "string" /\ call.rawString.s # <<>>
    /\ call.placement.k # "undefined"
    /\ ~extDisabled

\* the collection in the order the driver is specified to walk it
GlobalThenScoped == regex \o (IF allowed THEN scoped ELSE <<>>)

\* script applied to the outcome p of the scripts before it
ThenApply(script, p) ==
    IF p.threw THEN p
    ELSE IF Eligible(script, call.placement, call.params)
         THEN runRegexScript(script, p.v.s, call.params.characterOverride)
         ELSE p

\* the first n scripts of all composed in order, starting from the last call's text
RECURSIVE ComposeTo(_, _)
ComposeTo(all, n) ==
    IF n = 0 THEN Returned(call.rawString) ELSE ThenApply(all[n], ComposeTo(all, n - 1))

\* the recorded invocations go up the collection, each on the text the one before left
Threaded ==
    /\ \A k \in 1..Len(ran) : ran[k].idx \in 1..Len(GlobalThenScoped)
    /\ \A k \in 1..(Len(ran) - 1) :
          /\ ran[k].idx < ran[k + 1].idx
          /\ ran[k + 1].before = ran[k].after
    /\ ran # <<>> => ran[1].before = call.rawString.s

\* C1: past the driver guards, the result of getRegexedString is the composition of
\* the scripts in collection order, global scripts first and scoped scripts after:
\* each eligible script works on the whole output of the one before, an ineligible
\* script changes nothing, and no script runs out of order or twice.
C1_SequentialFold ==
    GuardsPassed =>
        /\ out = ComposeTo(GlobalThenScoped, Len(GlobalThenScoped))
        /\ Threaded

\* C1's case: a global script and then a scoped script both rewrote the text
C1_Witness ==
    /\ GuardsPassed /\ Len(ran) = 2 /\ ~out.threw
    /\ ran[1].idx <= Len(regex) /\ ran[2].idx > Len(regex)
    /\ ran[1].after # ran[1].before /\ ran[2].after # ran[2].before

\* C2: no call of getRegexedString ends in an error.
C2_NeverThrows == pc = "called" => ~out.threw

\* s without its element i
RemoveAt(s, i) == SubSeq(s, 1, i - 1) \o SubSeq(s, i + 1, Len(s))

\* the settings before the last SetDisabled, with the script it disabled taken out
RegexWithout == IF prev.idx <= Len(prev.regex) THEN RemoveAt(prev.regex, prev.idx) ELSE prev.regex
ScopedWithout ==
    IF prev.idx <= Len(prev.regex) THEN prev.scoped
    ELSE RemoveAt(prev.scoped, prev.idx - Len(prev.regex))

\* the script the last SetDisabled disabled, as it was before
DisabledScript == (prev.regex \o prev.scoped)[prev.idx]

\* the result of the last call, had it run over the scripts all
ResultOver(all) ==
    getRegexedString(call.rawString, call.placement, call.params, all, extDisabled).out

\* the names of the enabled scripts of a list, in order
EnabledNames(scripts) ==
    LET on == {i \in 1..Len(scripts) : ~scripts[i].disabled}
        nth(k) == CHOOSE i \in on : Cardinality({j \in on : j < i}) = k - 1
    IN [k \in 1..Cardinality(on) |->
           IF scripts[nth(k)].scriptName = "" THEN "unnamed" ELSE scripts[nth(k)].scriptName]

\* a call after SetDisabled gives what it gives with the script removed
OutputAsRemoved ==
    (pc = "called" /\ prev.idx # 0) =>
        out = ResultOver(RegexWithout \o (IF allowed THEN ScopedWithout ELSE <<>>))

\* C3 as stated: after a script's disabled flag is set, getRegexedString gives what
\* it gives with the script removed, and the script's name is no longer in the
\* result of getActiveRegexScripts.
C3_DisabledNameAbsent ==
    /\ OutputAsRemoved
    /\ (pc = "listed" /\ prev.idx # 0) =>
          \A k \in 1..Len(names) :
              names[k] # (IF DisabledScript.scriptName = "" THEN "unnamed"
                          ELSE DisabledScript.scriptName)

\* C3 amended: after a script's disabled flag is set, getRegexedString gives what it
\* gives with the script removed, and getActiveRegexScripts lists what it lists
\* with the script removed (its entry is gone; the same name stays when another
\* enabled global script bears it).
C3_DisabledAsRemoved ==
    /\ OutputAsRemoved
    /\ (pc = "listed" /\ prev.idx # 0) => names = EnabledNames(RegexWithout)

\* C3's case: disabling the script changed the output of the call
C3_Witness ==
    /\ pc = "called" /\ prev.idx # 0 /\ ~out.threw
    /\ out # ResultOver(prev.regex \o (IF allowed THEN prev.scoped ELSE <<>>))

\* C4: getActiveRegexScripts returns, in collection order, the names of the enabled
\* scripts among those getRegexedString walks: the global scripts, then the scoped.
C4_ListsGlobalAndScoped == pc = "listed" => names = EnabledNames(GlobalThenScoped)

\* the script reaches regexFromString and gets no pattern back
Unparsable(script) ==
    /\ ~script.disabled /\ script.findRegex # <<>>
    /\ ~regexFromString(getRegexString(script)).ok

\* C5: a script whose pattern source does not parse hands the running text back
\* unchanged and throws nothing, and the scripts after it run on that text: the
\* call ends as it ends with the script taken out of the collection.
C5_MalformedIsNoOp ==
    GuardsPassed =>
        /\ \A k \in 1..Len(ran) :
              Unparsable(GlobalThenScoped[ran[k].idx]) =>
                  /\ ~ran[k].threw
                  /\ ran[k].after = ran[k].before
                  /\ k < Len(ran) => ran[k + 1].before = ran[k].before
        /\ \A i \in 1..Len(GlobalThenScoped) :
              Unparsable(GlobalThenScoped[i]) =>
                  out = ResultOver(RemoveAt(GlobalThenScoped, i))

\* C5's case: a script after the malformed one rewrote the text the malformed one left
C5_Witness ==
    /\ GuardsPassed /\ Len(ran) = 2
    /\ Unparsable(GlobalThenScoped[ran[1].idx])
    /\ ran[2].before = call.rawString.s
    /\ ~ran[2].threw /\ ran[2].after # ran[2].before

\* the values a placeholder may name: the full match and the pattern's capture groups
MatchAndGroups(m, text) == <<Str(SubSeq(text, m.at, m.end - 1))>> \o m.groups

\* the replacement of one match when placeholders look up MatchAndGroups alone
GroupsOnlyReplacement(regexScript, m, text, characterOverride) ==
    [ExpandFrom(MatchMarker(regexScript.replaceString), 1, MatchAndGroups(m, text),
                regexScript.trimStrings, characterOverride)
       EXCEPT !.s = substituteParams(@, Undefined)]

\* the replace of runRegexScript with GroupsOnlyReplacement for every match
RECURSIVE GroupsOnlyFrom(_, _, _, _, _)
GroupsOnlyFrom(re, regexScript, text, from, characterOverride) ==
    LET m == FirstMatch(re.atoms, text, from)
        r == GroupsOnlyReplacement(regexScript, m, text, characterOverride)
        next == IF m.end > m.at THEN m.end ELSE m.at + 1
        kept == IF m.end > m.at \/ m.at > Len(text) THEN <<>> ELSE <<text[m.at]>>
    IN IF ~m.found THEN SubSeq(text, from, Len(text))
       ELSE SubSeq(text, from, m.at - 1) \o r.s \o
            (IF ~re.global THEN SubSeq(text, m.end, Len(text))
             ELSE kept \o GroupsOnlyFrom(re, regexScript, text, next, characterOverride))

\* C7: in every replacement, a $<digits> placeholder that names no capture group
\* which took part in the match expands to the empty string, wherever the match is
\* and whatever the trimStrings; $0 and {{match}} expand to the full match.
C7_MissingGroupIsEmpty ==
    pc = "called" =>
        \A k \in 1..Len(ran) :
            LET script == GlobalThenScoped[ran[k].idx]
                re == regexFromString(getRegexString(script))
            IN (~ShortCircuit(script, ran[k].before) /\ re.ok) =>
                  /\ ~ran[k].threw
                  /\ ran[k].after = GroupsOnlyFrom(re, script, ran[k].before, 1,
                                                   call.params.characterOverride)

-----------------------------------------------------------------------------
(* SpecSelector: the markdownOnly / promptOnly gate, the edit flag and the  *)
(* placement test, over every combination of the script's and call's flags  *)

\* /a/g -> b
Rewrite == [NewScript EXCEPT !.findRegex = <<"/", "a", "/", "g">>, !.replaceString = <<"b">>]

SelectorScripts ==
    {[Rewrite EXCEPT !.markdownOnly = md, !.promptOnly = po, !.runOnEdit = roe,
                     !.placement = pl] :
        md \in BOOLEAN, po \in BOOLEAN, roe \in BOOLEAN, pl \in {{}, {2}, {4}, {2, 4}}}

SelectorDomain ==
    [raws       |-> {Str(<<"a">>)},
     placements |-> {Undefined, Num(2), Num(4), Num(5)},
     params     |-> {[DefaultParams EXCEPT !.isMarkdown = md, !.isPrompt = pr, !.isEdit = ed] :
                        md \in BOOLEAN, pr \in BOOLEAN, ed \in BOOLEAN},
     frags      |-> {<<"a", "b">>},
     trims      |-> {<< <<"a">> >>},
     overrides  |-> {Undefined}]

InitSelector ==
    \E g \in [1..1 -> SelectorScripts], s \in SeqsUpTo(SelectorScripts, 1) :
        InitWith(g, s, TRUE, FALSE)

NextSelector == NextOver(SelectorDomain)

SpecSelector == InitSelector /\ [][NextSelector]_vars

\* the indices of the scripts the last call handed to runRegexScript
RanIdx == {ran[k].idx : k \in 1..Len(ran)}

\* the call's edit flag does not rule the script out
EditOk(script) == ~call.params.isEdit \/ script.runOnEdit

\* the script's placement set lists the call's placement
PlacementListed(script) ==
    call.placement.k = "number" /\ call.placement.n \in script.placement

\* the three admitting conditions of the gate, for the last call
MarkdownCase(script) == script.markdownOnly /\ call.params.isMarkdown
PromptCase(script)   == script.promptOnly /\ call.params.isPrompt
PlainCase(script) ==
    ~script.markdownOnly /\ ~script.promptOnly /\ ~call.params.isMarkdown /\ ~call.params.isPrompt

\* C6 as stated: at most one of the three admitting conditions holds at a time, and
\* a script with markdownOnly and promptOnly both set is never applied.
C6_BothFlagsNeverApplied ==
    pc = "called" =>
        \A i \in 1..Len(GlobalThenScoped) :
            LET script == GlobalThenScoped[i]
            IN /\ ~(MarkdownCase(script) /\ PromptCase(script))
               /\ ~(MarkdownCase(script) /\ PlainCase(script))
               /\ ~(PromptCase(script) /\ PlainCase(script))
               /\ (script.markdownOnly /\ script.promptOnly) => i \notin RanIdx

\* C6 amended: the third admitting condition excludes the other two, which can hold
\* together; a script with markdownOnly and promptOnly both set passes the gate
\* exactly when isMarkdown or isPrompt is true, so it is applied in those
\* contexts (edit flag and placement permitting) and in no other.
C6_BothFlagsNeedAContext ==
    GuardsPassed =>
        \A i \in 1..Len(GlobalThenScoped) :
            LET script == GlobalThenScoped[i]
            IN /\ ~(MarkdownCase(script) /\ PlainCase(script))
               /\ ~(PromptCase(script) /\ PlainCase(script))
               /\ (script.markdownOnly /\ script.promptOnly) =>
                     (i \in RanIdx <=>
                         /\ call.params.isMarkdown \/ call.params.isPrompt
                         /\ EditOk(script) /\ PlacementListed(script))

\* C6's case: a script with both flags set rewrote the text of a markdown call
C6_Witness ==
    /\ GuardsPassed /\ Len(ran) = 1 /\ call.params.isMarkdown /\ ~call.params.isPrompt
    /\ GlobalThenScoped[ran[1].idx].markdownOnly /\ GlobalThenScoped[ran[1].idx].promptOnly
    /\ ran[1].after # ran[1].before

\* C9 as stated: a script is applied only if its placement set contains the call's
\* placement, and a call with the legacy placement 4 applies no script at all.
C9_LegacyNeverMatched ==
    pc = "called" =>
        /\ \A i \in RanIdx : PlacementListed(GlobalThenScoped[i])
        /\ call.placement = Num(4) => ran = <<>>

\* C9 amended: a script is applied only if its placement set contains the call's
\* placement; the legacy value 4 is a value like any other: a call with
\* placement 4 applies the scripts that list 4 and pass the other tests.
C9_PlacementMembership ==
    GuardsPassed =>
        \A i \in 1..Len(GlobalThenScoped) :
            LET script == GlobalThenScoped[i]
            IN i \in RanIdx <=>
                  /\ PlacementListed(script)
                  /\ MarkdownCase(script) \/ PromptCase(script) \/ PlainCase(script)
                  /\ EditOk(script)

\* C9's case: a call with placement 4 applied a script that lists 4
C9_Witness ==
    /\ GuardsPassed /\ call.placement = Num(4) /\ ran # <<>>
    /\ 4 \in GlobalThenScoped[ran[1].idx].placement
    /\ ran[1].after # ran[1].before

-----------------------------------------------------------------------------
(* SpecDepth: the minDepth / maxDepth test over every kind of bound *)

MaxDepth == 6      \* the deepest message a call is made for

DepthBounds == {Undefined, Null, NaN} \cup {Num(n) : n \in {-2, -1, 0, 2, 5}}

DepthScripts ==
    {[Rewrite EXCEPT !.minDepth = lo, !.maxDepth = hi] : lo \in DepthBounds, hi \in DepthBounds}

DepthDomain ==
    [raws       |-> {Str(<<"a">>)},
     placements |-> {Num(2)},
     params     |-> {[DefaultParams EXCEPT !.depth = d] :
                        d \in {Undefined, NaN} \cup {Num(n) : n \in -3..MaxDepth}},
     frags      |-> {<<"a", "b">>},
     trims      |-> {<< <<"a">> >>},
     overrides  |-> {Undefined}]

InitDepth == \E g \in [1..1 -> DepthScripts] : InitWith(g, <<>>, FALSE, FALSE)

NextDepth == NextOver(DepthDomain)

SpecDepth == InitDepth /\ [][NextDepth]_vars

\* the bound is a number no smaller than least
ValidBound(bound, least) == bound.k = "number" /\ bound.n >= least

\* the depth rule as stated: below a valid minDepth, or above a valid maxDepth
OutOfRange(script, depth) ==
    \/ ValidBound(script.minDepth, -1) /\ depth < script.minDepth.n
    \/ ValidBound(script.maxDepth, 0) /\ depth > script.maxDepth.n

\* C8: with a numeric depth a script is skipped exactly when depth is below a
\* minDepth that is a number >= -1 or above a maxDepth that is a number >= 0; a
\* bound that is absent, null, not a number or below its range excludes nothing,
\* and without a depth no bound is consulted.  minDepth 2 with maxDepth 5 admits
\* depths 2..5 and rejects 1 and 6; minDepth -2 is no lower bound.
C8_DepthBoundary ==
    GuardsPassed =>
        \A i \in 1..Len(GlobalThenScoped) :
            LET script == GlobalThenScoped[i]
                depth  == call.params.depth
            IN /\ depth.k = "number" => (i \notin RanIdx <=> OutOfRange(script, depth.n))
               /\ depth.k # "number" => i \in RanIdx
               /\ (script.minDepth = Num(2) /\ script.maxDepth = Num(5) /\ depth.k = "number") =>
                     (i \in RanIdx <=> depth.n \in 2..5)
               /\ (script.minDepth = Num(-2) /\ script.maxDepth.k # "number") => i \in RanIdx

\* C8's case: depth 6 skipped the script bounded by 2 and 5
C8_Witness ==
    /\ GuardsPassed /\ call.params.depth = Num(6) /\ ran = <<>>
    /\ regex[1].minDepth = Num(2) /\ regex[1].maxDepth = Num(5)

-----------------------------------------------------------------------------
(* SpecFilter: filterString over fragments and trim lists *)

MaxTrims == 2      \* the entries of a trimStrings list

TrimEntries == {<<" ", " ">>, <<"a", "b">>, <<"a", "a">>, <<"{{char}}">>, <<"c", "c">>, <<>>}

Secret == <<" ", " ", "s", "e", "c", "r", "e", "t", " ", " ">>

FilterDomain ==
    [raws       |-> {Str(<<"a">>)},
     placements |-> {Num(2)},
     params     |-> {DefaultParams},
     frags      |-> {Secret, <<"a", "a", "a">>, <<"a", "a", "b", "b">>, <<"c", "a", "b", "c">>},
     trims      |-> SeqsUpTo(TrimEntries, MaxTrims),
     overrides  |-> {Undefined, Str(<<"a">>)}]

InitFilter == \E g \in [1..1 -> {ScriptA, ScriptC}] : InitWith(g, <<>>, FALSE, FALSE)

NextFilter == NextOver(FilterDomain)

SpecFilter == InitFilter /\ [][NextFilter]_vars

\* the position of the first occurrence of t in s, 0 when there is none
FirstOcc(s, t) ==
    LET hits == {i \in 1..(Len(s) - Len(t) + 1) : SubSeq(s, i, i + Len(t) - 1) = t}
    IN IF hits = {} THEN 0 ELSE CHOOSE i \in hits : \A j \in hits : i <= j

\* s with every occurrence of the literal t cut out, found left to right
RECURSIVE CutAll(_, _)
CutAll(s, t) ==
    IF t = <<>> \/ FirstOcc(s, t) = 0 THEN s
    ELSE SubSeq(s, 1, FirstOcc(s, t) - 1)
         \o CutAll(SubSeq(s, FirstOcc(s, t) + Len(t), Len(s)), t)

\* the entry with its macros replaced by their values, for the last call
EntryText(entry) ==
    LET value(tok) == IF tok = "{{user}}" THEN name1
                      ELSE IF tok = "{{char}}"
                           THEN (IF call.params.characterOverride.k = "string"
                                 THEN call.params.characterOverride.s ELSE name2)
                      ELSE <<tok>>
        glue[k \in 0..Len(entry)] == IF k = 0 THEN <<>> ELSE glue[k - 1] \o value(entry[k])
    IN glue[Len(entry)]

\* the fragment of the last call after its first n trim entries
RECURSIVE TrimmedTo(_)
TrimmedTo(n) ==
    IF n = 0 THEN call.rawString.s
    ELSE CutAll(TrimmedTo(n - 1), EntryText(call.trimStrings[n]))

\* C10: filterString takes the trim entries in list order; each entry, after macro
\* substitution, is cut out of the fragment wherever it occurs as a literal string,
\* and a later entry works on what the earlier ones left.  '  secret  ' with the
\* one entry '  ' gives 'secret'.
C10_TrimInOrder ==
    pc = "filtered" =>
        /\ out = Returned(Str(TrimmedTo(Len(call.trimStrings))))
        /\ (call.rawString.s = Secret /\ call.trimStrings = << <<" ", " ">> >>) =>
              out.v.s = <<"s", "e", "c", "r", "e", "t">>

\* C10's case: both entries of a list cut something, the second out of what the
\* first left
C10_Witness ==
    /\ pc = "filtered" /\ Len(call.trimStrings) = 2
    /\ TrimmedTo(1) # call.rawString.s
    /\ TrimmedTo(2) # TrimmedTo(1)
    /\ out.v.s = TrimmedTo(2)
    /\ CutAll(call.rawString.s, EntryText(call.trimStrings[2])) = call.rawString.s

====
